---- MODULE Spec2Model ----
(***************************************************************************)
(* Model of banner-masonry: BannerGenerator.generateBanner and the masonry *)
(* layout it computes (src/src/utils/bannerGenerator.ts).                  *)
(*                                                                         *)
(* Number representation.  JavaScript numbers are modelled by exact        *)
(* rational arithmetic on integers:                                        *)
(*  - config.width and config.height are held in tenths of the configured  *)
(*    unit (the inputs of PrintSettings have step 0.1), so 3000 px is      *)
(*    30000 and 0.5 px is 5;                                               *)
(*  - bannerWidth, bannerHeight and columns are plain integers;            *)
(*  - every length of the layout (columnWidth, columnHeights, x, y, width, *)
(*    height of an item) is held multiplied by Scale = columns * WidthLcm, *)
(*    the common denominator of everything the layout can compute.         *)
(* The rounding error of IEEE-754 doubles is not modelled.                 *)
(***************************************************************************)
EXTENDS Integers, Sequences, FiniteSets, TLC

\* ---------------------------------------------------------------- bounds
MaxImages == 3

\* originalDimensions of the images a request may carry: <<width, height>>
ImageDims == { <<100, 100>>, <<100, 200>>, <<200, 100>> }

\* config.width / config.height in tenths of the unit
WidthsT == { -50, 5, 50, 100, 200, 10000, 30000, 160000, 160005 }
HeightsT == { -50, 0, 150, 5000, 10000, 160000, 200000 }
Units == { "px", "in", "cm" }
Dpis == { 0, 72, 300 }

\* pixel canvases around the column-count thresholds and the gap
PxWidthsT == { 10, 100, 200, 210, 3990, 5000, 7990, 8000, 10000, 11990, 12000,
               15990, 16000, 19990, 20000, 24000, 30000, 160000 }
PxHeightsT == { 50, 100, 200, 500, 5000, 10000 }

\* direct calls of calculateMasonryLayout: list length and canvas sizes in px
MaxLayoutImages == 5
LayoutWidths == { 500, 1000 }
LayoutHeights == { 50, 1000 }

\* the values typed into the width input and picked in the unit select
SettingsWidthsT == { 10000, 30000 }
SettingsUnits == { "px", "in" }

\* files of one selection: an image, an image that fails to decode, a non-image
MaxFiles == 3
FileKinds == { "image", "broken", "text" }

\* ------------------------------------------------------------- constants
Gap == 10
maxDimension == 16000

\* ------------------------------------------------------------ arithmetic
RECURSIVE Gcd(_, _)
Gcd(a, b) == IF b = 0 THEN a ELSE Gcd(b, a % b)

RECURSIVE LcmOf(_)
LcmOf(S) ==
  IF S = {} THEN 1
  ELSE LET n == CHOOSE k \in S : TRUE
           r == LcmOf(S \ {n})
       IN (n * r) \div Gcd(n, r)

\* common denominator of the aspect-ratio divisions of line 33
WidthLcm == LcmOf({ d[1] : d \in ImageDims })

\* Math.round on the rational num/den (den > 0): floor(num/den + 1/2)
MathRound(num, den) == (2 * num + den) \div (2 * den)

\* Math.floor(a / b) for integers, b > 0
MathFloorDiv(a, b) == a \div b

MathMax2(a, b) == IF a >= b THEN a ELSE b
MathMin2(a, b) == IF a <= b THEN a ELSE b

\* the value of a dimension in pixels before rounding, as <<num, den>>:
\* px: v; in: v * dpi; cm: (v / 2.54) * dpi   (v is in tenths)
UnroundedPixels(v, unit, dpi) ==
  IF unit = "in" THEN << v * dpi, 10 >>
  ELSE IF unit = "cm" THEN << v * dpi * 5, 127 >>
  ELSE << v, 10 >>

\* generateBanner, lines 83-96
ConvertRoundEarly(v, unit, dpi) ==
  IF unit = "in" THEN MathRound(v, 10) * dpi
  ELSE IF unit = "cm" THEN MathRound(MathRound(v, 10) * dpi * 50, 127)
  ELSE MathRound(v, 10)
ConvertToPixels(v, unit, dpi) ==
  LET p == UnroundedPixels(v, unit, dpi) IN MathRound(p[1], p[2])

\* PrintSettings.calculatePixelDimensions, lines 290-306
calculatePixelDimensions(cfg) ==
  LET w == IF cfg.unit = "in" THEN << cfg.width * cfg.dpi, 10 >>
           ELSE IF cfg.unit = "cm" THEN << cfg.width * cfg.dpi * 5, 127 >>
           ELSE << cfg.width, 10 >>
      h == IF cfg.unit = "in" THEN << cfg.height * cfg.dpi, 10 >>
           ELSE IF cfg.unit = "cm" THEN << cfg.height * cfg.dpi * 5, 127 >>
           ELSE << cfg.height, 10 >>
  IN [ width |-> MathRound(w[1], w[2]), height |-> MathRound(h[1], h[2]) ]

\* line 100
TooLargeInclusive(w, h) == w >= maxDimension \/ h >= maxDimension
TooLarge(w, h) == w > maxDimension \/ h > maxDimension

\* line 107
ColumnCountRounded(w) == MathMax2(1, MathMin2(5, MathRound(w, 400)))
ColumnCount(w) == MathMax2(1, MathMin2(5, MathFloorDiv(w, 400)))

\* ---------------------------------------------------------------- layout
\* Scale * columnWidth, line 22
ScaleOf(cols) == cols * WidthLcm
ColumnWidth(w, cols) == (w - Gap * (cols + 1)) * WidthLcm

\* Math.min(...columnHeights), line 28
MathMin(h) == CHOOSE m \in { h[c] : c \in DOMAIN h } : \A c \in DOMAIN h : m <= h[c]

\* Array.prototype.indexOf, line 28
LastIndexOf(h, v) ==
  IF \E c \in DOMAIN h : h[c] = v
  THEN CHOOSE c \in DOMAIN h : h[c] = v /\ \A d \in DOMAIN h : h[d] = v => d <= c
  ELSE -1
IndexOf(h, v) ==
  IF \E c \in DOMAIN h : h[c] = v
  THEN CHOOSE c \in DOMAIN h : h[c] = v /\ \A d \in DOMAIN h : h[d] = v => c <= d
  ELSE -1

\* Scale * itemHeight, lines 31-33: columnWidth / (width / height)
ItemHeightInverted(cw, dims) == (cw \div dims[2]) * dims[1]
ItemHeight(cw, dims) == (cw \div dims[1]) * dims[2]

\* Scale * x, line 36
ItemXNoMargin(c, cw, cols) == c * (cw + Gap * ScaleOf(cols))
ItemX(c, cw, cols) == Gap * ScaleOf(cols) + c * (cw + Gap * ScaleOf(cols))

\* line 40
FitsNoGap(y, h, bh, cols) == y + h <= bh * ScaleOf(cols)
Fits(y, h, bh, cols) == y + h <= (bh - Gap) * ScaleOf(cols)

\* lines 40-51: the column heights after the image was handled
AdvanceAlways(heights, c, y, h, fits) == [ heights EXCEPT ![c] = y + h + Gap * ScaleOf(Cardinality(DOMAIN heights)) ]
Advance(heights, c, y, h, fits) ==
  IF fits THEN [ heights EXCEPT ![c] = y + h + Gap * ScaleOf(Cardinality(DOMAIN heights)) ]
  ELSE heights

\* ----------------------------------------------------------------- state
VARIABLES
  pc,                   \* position in generateBanner
  images,               \* the images argument: sequence of originalDimensions
  config,               \* the config argument
  bannerWidth,          \* lines 84-96
  bannerHeight,
  columns,              \* line 107
  columnHeights,        \* line 23, indexed 0..columns-1
  items,                \* line 24
  idx,                  \* number of images the loop of line 26 has handled
  shortestColumnIndex,  \* line 28, of the last image handled
  rejected,             \* indexes of the images that failed the test of line 40
  layout,               \* line 108: the value calculateMasonryLayout returned
  canvas,               \* lines 117-119
  drawn,                \* per item of the draw loop: TRUE drawn, FALSE load failed
  reported,             \* the values passed to onProgress, in order
  error,                \* the error generateBanner threw
  blob,                 \* line 166
  onProgress,           \* line 75: "none" when the argument is omitted
  \* PrintSettings
  psConfig,             \* line 271: the config state of the component
  isGenerating,         \* line 279
  generationProgress,   \* line 280
  previewUrl,           \* line 281: << >> for null, else << the config it was made from >>
  generatedSize,        \* line 282: << >> for null, else << "size" >>
  handler,              \* the handler in flight and the await it is at
  downloaded,           \* lines 199-208: the configs of the banners handed to the browser
  \* ImageUploader
  processing,           \* line 534: the map from image id to ProcessingProgress
  imageFiles,           \* line 541: the kinds of the files being processed
  uploader,             \* position in handleFiles
  fileIdx,              \* imageProcessor.ts line 198: files handled so far
  fileStep,             \* progress reports issued for the current file
  results,              \* imageProcessor.ts line 196: 0-based indexes of processed files
  delivered             \* line 586: the argument of the last onImagesProcessed

vars == << pc, images, config, bannerWidth, bannerHeight, columns, columnHeights,
           items, idx, shortestColumnIndex, rejected, layout, canvas, drawn,
           reported, error, blob, onProgress, psConfig, isGenerating,
           generationProgress, previewUrl, generatedSize, handler, downloaded,
           processing, imageFiles, uploader, fileIdx, fileStep, results, delivered >>

settingsVars == << psConfig, isGenerating, previewUrl, generatedSize, handler, downloaded >>
uploaderVars == << processing, imageFiles, uploader, fileIdx, fileStep, results, delivered >>
otherVars == << settingsVars, uploaderVars >>
bannerVars == << pc, images, config, bannerWidth, bannerHeight, columns, columnHeights,
                 items, idx, shortestColumnIndex, rejected, layout, canvas, drawn,
                 reported, error, blob, onProgress, generationProgress >>

NoLayout == [ items |-> << >> ]
NoCanvas == [ width |-> 0, height |-> 0, allocated |-> FALSE ]

ImageLists == UNION { [ 1..n -> ImageDims ] : n \in 0..MaxImages }
Configs == [ width : WidthsT, height : HeightsT, unit : Units, dpi : Dpis ]

\* line 271: the initial config state
DefaultConfig == [ width |-> 30000, height |-> 20000, unit |-> "px", dpi |-> 300 ]

\* lines 271-282: PrintSettings as mounted, no handler running
SettingsIdle ==
  /\ psConfig = DefaultConfig
  /\ isGenerating = FALSE
  /\ generationProgress = 0
  /\ previewUrl = << >>
  /\ generatedSize = << >>
  /\ handler = "none"
  /\ downloaded = << >>

\* line 534: ImageUploader as mounted, no files being processed
UploaderIdle ==
  /\ processing = << >>
  /\ imageFiles = << >>
  /\ uploader = "idle"
  /\ fileIdx = 0
  /\ fileStep = 0
  /\ results = << >>
  /\ delivered = << >>

\* onProgress?.(v), lines 81-184; the callbacks of lines 323-325 and 355-357
\* store v in generationProgress
Report(v) ==
  /\ reported' = IF onProgress = "none" THEN reported ELSE Append(reported, v)
  /\ generationProgress' = IF onProgress = "setGenerationProgress" THEN v
                           ELSE generationProgress
NoReport == UNCHANGED << reported, generationProgress >>

\* line 156: the progress reported after item i (0-based) of total was drawn
DrawProgressSeventy(i, total) == 30 + MathFloorDiv((i + 1) * 70, total)
DrawProgress(i, total) == 30 + MathFloorDiv((i + 1) * 60, total)

\* lines 137-160: the catch keeps the loop going when loadImage rejects
DrawOutcomeAbort(loaded) ==
  IF loaded THEN [ pc |-> "draw", error |-> "none" ]
  ELSE [ pc |-> "error", error |-> "ImageLoadFailed" ]
DrawOutcome(loaded) == [ pc |-> "draw", error |-> "none" ]

\* a call of generateBanner(images, config, onProgress) by itself
Init ==
  /\ pc = "start"
  /\ images \in ImageLists
  /\ config \in Configs
  /\ onProgress = "callback"
  /\ SettingsIdle
  /\ UploaderIdle
  /\ bannerWidth = 0
  /\ bannerHeight = 0
  /\ columns = 0
  /\ columnHeights = << >>
  /\ items = << >>
  /\ idx = 0
  /\ shortestColumnIndex = -1
  /\ rejected = {}
  /\ layout = NoLayout
  /\ canvas = NoCanvas
  /\ drawn = << >>
  /\ reported = << >>
  /\ error = "none"
  /\ blob = "none"

\* lines 77-81
Start ==
  /\ pc = "start"
  /\ IF Len(images) = 0
     THEN /\ pc' = "error"
          /\ error' = "NoImages"
          /\ NoReport
     ELSE /\ pc' = "convert"
          /\ Report(5)
          /\ UNCHANGED error
  /\ UNCHANGED << images, config, bannerWidth, bannerHeight, columns, columnHeights,
                  items, idx, shortestColumnIndex, rejected, layout, canvas, drawn, blob >>
  /\ UNCHANGED << onProgress, otherVars >>

\* lines 83-96
ConvertDimensions ==
  /\ pc = "convert"
  /\ bannerWidth' = ConvertToPixels(config.width, config.unit, config.dpi)
  /\ bannerHeight' = ConvertToPixels(config.height, config.unit, config.dpi)
  /\ pc' = "checkSize"
  /\ UNCHANGED << images, config, columns, columnHeights, items, idx,
                  shortestColumnIndex, rejected, layout, canvas, drawn, reported,
                  generationProgress, error, blob >>
  /\ UNCHANGED << onProgress, otherVars >>

\* lines 98-104
CheckCanvasSize ==
  /\ pc = "checkSize"
  /\ IF TooLarge(bannerWidth, bannerHeight)
     THEN /\ pc' = "error"
          /\ error' = "TooLarge"
          /\ NoReport
     ELSE /\ pc' = "beginLayout"
          /\ Report(10)
          /\ UNCHANGED error
  /\ UNCHANGED << images, config, bannerWidth, bannerHeight, columns, columnHeights,
                  items, idx, shortestColumnIndex, rejected, layout, canvas, drawn, blob >>
  /\ UNCHANGED << onProgress, otherVars >>

\* lines 107-108 and 22-24
BeginLayout ==
  /\ pc = "beginLayout"
  /\ columns' = ColumnCount(bannerWidth)
  /\ columnHeights' = [ c \in 0..(columns' - 1) |-> Gap * ScaleOf(columns') ]
  /\ items' = << >>
  /\ idx' = 0
  /\ pc' = "layout"
  /\ UNCHANGED << images, config, bannerWidth, bannerHeight, shortestColumnIndex,
                  rejected, layout, canvas, drawn, reported, generationProgress,
                  error, blob >>
  /\ UNCHANGED << onProgress, otherVars >>

\* lines 26-52: one iteration of the loop over the images
LayoutStep ==
  /\ pc = "layout"
  /\ idx < Len(images)
  /\ LET image == images[idx + 1]
         c == IndexOf(columnHeights, MathMin(columnHeights))
         columnWidth == ColumnWidth(bannerWidth, columns)
         itemHeight == ItemHeight(columnWidth, image)
         x == ItemX(c, columnWidth, columns)
         y == columnHeights[c]
         fits == Fits(y, itemHeight, bannerHeight, columns)
     IN /\ shortestColumnIndex' = c
        /\ items' = IF fits
                    THEN Append(items, [ image |-> idx + 1, x |-> x, y |-> y,
                                         width |-> columnWidth, height |-> itemHeight ])
                    ELSE items
        /\ columnHeights' = Advance(columnHeights, c, y, itemHeight, fits)
        /\ rejected' = IF fits THEN rejected ELSE rejected \cup { idx + 1 }
  /\ idx' = idx + 1
  /\ UNCHANGED << pc, images, config, bannerWidth, bannerHeight, columns, layout,
                  canvas, drawn, reported, generationProgress, error, blob >>
  /\ UNCHANGED << onProgress, otherVars >>

\* lines 54 and 108-114
CheckLayout ==
  /\ pc = "layout"
  /\ idx = Len(images)
  /\ layout' = [ items |-> items ]
  /\ IF Len(items) = 0
     THEN /\ pc' = "error"
          /\ error' = "NoFit"
          /\ NoReport
     ELSE /\ pc' = "createCanvas"
          /\ Report(20)
          /\ UNCHANGED error
  /\ UNCHANGED << images, config, bannerWidth, bannerHeight, columns, columnHeights,
                  items, idx, shortestColumnIndex, rejected, canvas, drawn, blob >>
  /\ UNCHANGED << onProgress, otherVars >>

\* lines 116-130; getContext may return null
CreateCanvas ==
  /\ pc = "createCanvas"
  /\ canvas' = [ width |-> bannerWidth, height |-> bannerHeight, allocated |-> TRUE ]
  /\ \E ctx \in BOOLEAN :
       IF ctx
       THEN /\ pc' = "draw"
            /\ Report(30)
            /\ UNCHANGED error
       ELSE /\ pc' = "error"
            /\ error' = "NoContext"
            /\ NoReport
  /\ UNCHANGED << images, config, bannerWidth, bannerHeight, columns, columnHeights,
                  items, idx, shortestColumnIndex, rejected, layout, drawn, blob >>
  /\ UNCHANGED << onProgress, otherVars >>

\* lines 134-161: one iteration of the draw loop; loadImage may reject
DrawItem ==
  /\ pc = "draw"
  /\ Len(drawn) < Len(layout.items)
  /\ \E loaded \in BOOLEAN :
       /\ drawn' = Append(drawn, loaded)
       /\ pc' = DrawOutcome(loaded).pc
       /\ error' = DrawOutcome(loaded).error
       /\ IF loaded
          THEN Report(DrawProgress(Len(drawn), Len(layout.items)))
          ELSE NoReport
  /\ UNCHANGED << images, config, bannerWidth, bannerHeight, columns,
                  columnHeights, items, idx, shortestColumnIndex, rejected, layout,
                  canvas, blob >>
  /\ UNCHANGED << onProgress, otherVars >>

\* lines 163-182; toBlob may yield null or throw
ToBlob ==
  /\ pc = "draw"
  /\ Len(drawn) = Len(layout.items)
  /\ \E result \in { "blob", "null" } :
       IF result = "blob"
       THEN /\ pc' = "encoded"
            /\ blob' = "blob"
            /\ UNCHANGED error
       ELSE /\ pc' = "error"
            /\ error' = "ToBlobFailed"
            /\ UNCHANGED blob
  /\ Report(95)
  /\ UNCHANGED << images, config, bannerWidth, bannerHeight, columns, columnHeights,
                  items, idx, shortestColumnIndex, rejected, layout, canvas, drawn >>
  /\ UNCHANGED << onProgress, otherVars >>

\* lines 184-186
Finish ==
  /\ pc = "encoded"
  /\ Report(100)
  /\ pc' = "done"
  /\ UNCHANGED << images, config, bannerWidth, bannerHeight, columns, columnHeights,
                  items, idx, shortestColumnIndex, rejected, layout, canvas, drawn,
                  error, blob >>
  /\ UNCHANGED << onProgress, otherVars >>

Next ==
  \/ Start
  \/ ConvertDimensions
  \/ CheckCanvasSize
  \/ BeginLayout
  \/ LayoutStep
  \/ CheckLayout
  \/ CreateCanvas
  \/ DrawItem
  \/ ToBlob
  \/ Finish

Spec == Init /\ [][Next]_vars

\* a call of calculateMasonryLayout by itself, lines 15-21
InitLayout ==
  /\ pc = "callLayout"
  /\ images \in UNION { [ 1..n -> ImageDims ] : n \in 0..MaxLayoutImages }
  /\ bannerWidth \in LayoutWidths
  /\ bannerHeight \in LayoutHeights
  /\ config = DefaultConfig
  /\ onProgress = "none"
  /\ SettingsIdle
  /\ UploaderIdle
  /\ columns = 0
  /\ columnHeights = << >>
  /\ items = << >>
  /\ idx = 0
  /\ shortestColumnIndex = -1
  /\ rejected = {}
  /\ layout = NoLayout
  /\ canvas = NoCanvas
  /\ drawn = << >>
  /\ reported = << >>
  /\ error = "none"
  /\ blob = "none"

\* lines 15-24: the columns argument (3 when omitted), gap left at its default
CallLayout ==
  /\ pc = "callLayout"
  /\ \E cols \in 1..5 :
       /\ columns' = cols
       /\ columnHeights' = [ c \in 0..(cols - 1) |-> Gap * ScaleOf(cols) ]
  /\ items' = << >>
  /\ idx' = 0
  /\ pc' = "layout"
  /\ UNCHANGED << images, config, bannerWidth, bannerHeight, shortestColumnIndex,
                  rejected, layout, canvas, drawn, reported, generationProgress,
                  error, blob >>
  /\ UNCHANGED << onProgress, otherVars >>

\* line 54
ReturnLayout ==
  /\ pc = "layout"
  /\ idx = Len(images)
  /\ layout' = [ items |-> items ]
  /\ pc' = "returned"
  /\ UNCHANGED << images, config, bannerWidth, bannerHeight, columns, columnHeights,
                  items, idx, shortestColumnIndex, rejected, canvas, drawn, reported,
                  generationProgress, error, blob >>
  /\ UNCHANGED << onProgress, otherVars >>

NextLayout ==
  \/ CallLayout
  \/ LayoutStep
  \/ ReturnLayout

SpecLayout == InitLayout /\ [][NextLayout]_vars

\* a call of generateBanner with a size given in pixels
InitPx ==
  /\ pc = "start"
  /\ images \in ImageLists
  /\ config \in [ width : PxWidthsT, height : PxHeightsT, unit : { "px" }, dpi : { 300 } ]
  /\ onProgress = "callback"
  /\ SettingsIdle
  /\ UploaderIdle
  /\ bannerWidth = 0
  /\ bannerHeight = 0
  /\ columns = 0
  /\ columnHeights = << >>
  /\ items = << >>
  /\ idx = 0
  /\ shortestColumnIndex = -1
  /\ rejected = {}
  /\ layout = NoLayout
  /\ canvas = NoCanvas
  /\ drawn = << >>
  /\ reported = << >>
  /\ error = "none"
  /\ blob = "none"

SpecPx == InitPx /\ [][Next]_vars

\* ---------------------------------------------------------- PrintSettings
\* line 480: the disabled attribute of the Generate Banner button
GenerateDisabledNotBusy == Len(images) = 0
GenerateDisabled == Len(images) = 0 \/ isGenerating

\* line 488: the disabled attribute of the Download Banner button
DownloadDisabled == previewUrl = << >> \/ isGenerating

\* a call generateBanner(images, cfg, cb): fresh locals, lines 72-76
CallGenerateBanner(cfg, cb) ==
  /\ pc' = "start"
  /\ config' = cfg
  /\ onProgress' = cb
  /\ bannerWidth' = 0
  /\ bannerHeight' = 0
  /\ columns' = 0
  /\ columnHeights' = << >>
  /\ items' = << >>
  /\ idx' = 0
  /\ shortestColumnIndex' = -1
  /\ rejected' = {}
  /\ layout' = NoLayout
  /\ canvas' = NoCanvas
  /\ drawn' = << >>
  /\ reported' = << >>
  /\ error' = "none"
  /\ blob' = "none"
  /\ UNCHANGED images

\* the finally blocks of lines 338-341 and 362-365; the call has settled
HandlerFinally ==
  /\ isGenerating' = FALSE
  /\ generationProgress' = 0
  /\ handler' = "none"
  /\ pc' = "idle"
  /\ UNCHANGED << images, config, onProgress, bannerWidth, bannerHeight, columns,
                  columnHeights, items, idx, shortestColumnIndex, rejected, layout,
                  canvas, drawn, reported, error, blob >>

\* PrintSettings mounted (App.tsx line 36: only with images), nothing running
InitSettings ==
  /\ pc = "idle"
  /\ images \in ImageLists \ { << >> }
  /\ config = DefaultConfig
  /\ onProgress = "none"
  /\ SettingsIdle
  /\ UploaderIdle
  /\ bannerWidth = 0
  /\ bannerHeight = 0
  /\ columns = 0
  /\ columnHeights = << >>
  /\ items = << >>
  /\ idx = 0
  /\ shortestColumnIndex = -1
  /\ rejected = {}
  /\ layout = NoLayout
  /\ canvas = NoCanvas
  /\ drawn = << >>
  /\ reported = << >>
  /\ error = "none"
  /\ blob = "none"

\* lines 284-288, from the inputs of lines 386-420; the inputs are never disabled
HandleConfigChange ==
  /\ \/ \E w \in SettingsWidthsT : psConfig' = [ psConfig EXCEPT !.width = w ]
     \/ \E u \in SettingsUnits : psConfig' = [ psConfig EXCEPT !.unit = u ]
  /\ UNCHANGED << pc, images, config, onProgress, bannerWidth, bannerHeight, columns,
                  columnHeights, items, idx, shortestColumnIndex, rejected, layout,
                  canvas, drawn, reported, error, blob >>
  /\ UNCHANGED << isGenerating, generationProgress, previewUrl, generatedSize,
                  handler, downloaded >>
  /\ UNCHANGED uploaderVars

\* lines 308-326, started by the button of lines 477-483
HandleGenerateBanner ==
  /\ ~ GenerateDisabled
  /\ Len(images) # 0
  /\ isGenerating' = TRUE
  /\ generationProgress' = 0
  /\ previewUrl' = << >>
  /\ generatedSize' = << >>
  /\ handler' = "generate:banner"
  /\ CallGenerateBanner(psConfig, "setGenerationProgress")
  /\ UNCHANGED << psConfig, downloaded >>
  /\ UNCHANGED uploaderVars

\* line 320 resumes: on a blob, generatePreview calls generateBanner again
\* (line 219) with the config of the handler's closure; on an error, lines 334-341
GenerateBannerSettled ==
  /\ handler = "generate:banner"
  /\ pc \in { "done", "error" }
  /\ IF pc = "done"
     THEN /\ handler' = "generate:preview"
          /\ CallGenerateBanner(config, "none")
          /\ UNCHANGED << isGenerating, generationProgress >>
     ELSE HandlerFinally
  /\ UNCHANGED << psConfig, previewUrl, generatedSize, downloaded >>
  /\ UNCHANGED uploaderVars

\* lines 219-245 and 329-341: the blob is loaded and resampled; loadImage or
\* getContext may fail
PreviewSettled ==
  /\ handler = "generate:preview"
  /\ pc \in { "done", "error" }
  /\ \E resampled \in BOOLEAN :
       IF pc = "done" /\ resampled
       THEN /\ previewUrl' = << config >>
            /\ generatedSize' = << "size" >>
       ELSE UNCHANGED << previewUrl, generatedSize >>
  /\ HandlerFinally
  /\ UNCHANGED << psConfig, downloaded >>
  /\ UNCHANGED uploaderVars

\* lines 344-358, started by the button of lines 485-491
HandleDownloadBanner ==
  /\ ~ DownloadDisabled
  /\ previewUrl # << >>
  /\ isGenerating' = TRUE
  /\ handler' = "download"
  /\ CallGenerateBanner(psConfig, "setGenerationProgress")
  /\ UNCHANGED << psConfig, generationProgress, previewUrl, generatedSize, downloaded >>
  /\ UNCHANGED uploaderVars

\* lines 197-208 and 359-365: the banner is handed to the browser
DownloadSettled ==
  /\ handler = "download"
  /\ pc \in { "done", "error" }
  /\ downloaded' = IF pc = "done" THEN << config >> ELSE downloaded
  /\ HandlerFinally
  /\ UNCHANGED << psConfig, previewUrl, generatedSize >>
  /\ UNCHANGED uploaderVars

NextSettings ==
  \/ HandleConfigChange
  \/ HandleGenerateBanner
  \/ GenerateBannerSettled
  \/ PreviewSettled
  \/ HandleDownloadBanner
  \/ DownloadSettled
  \/ Start
  \/ ConvertDimensions
  \/ CheckCanvasSize
  \/ BeginLayout
  \/ LayoutStep
  \/ CheckLayout
  \/ CreateCanvas
  \/ DrawItem
  \/ ToBlob
  \/ Finish

SpecSettings == InitSettings /\ [][NextSettings]_vars

\* ---------------------------------------------------------- ImageUploader
\* line 553: `temp-${index}-${Date.now()}`
TempId(index) == << "temp", index >>

\* imageProcessor.ts lines 8-10 and 199: `${Date.now()}-${random}`, one per file
GenerateId(n) == << "id", n >>

\* imageProcessor.ts lines 80, 91, 107, 113: the reports of processImage
ProgressSteps == << 10, 40, 80, 100 >>

\* line 541: the files whose type starts with image/
RECURSIVE FilterImages(_)
FilterImages(fs) ==
  IF fs = << >> THEN << >>
  ELSE IF Head(fs) = "text" THEN FilterImages(Tail(fs))
  ELSE << Head(fs) >> \o FilterImages(Tail(fs))

\* lines 567-580: the updater passed to setProcessing
OnFileProgress(prev, imageId, progress) ==
  IF imageId \in DOMAIN prev
  THEN [ prev EXCEPT ![imageId] =
           [ @ EXCEPT !.progress = progress,
                      !.stage = IF progress = 100 THEN "complete" ELSE "processing" ] ]
  ELSE prev

InitUploader ==
  /\ pc = "idle"
  /\ images = << >>
  /\ config = DefaultConfig
  /\ onProgress = "none"
  /\ SettingsIdle
  /\ UploaderIdle
  /\ bannerWidth = 0
  /\ bannerHeight = 0
  /\ columns = 0
  /\ columnHeights = << >>
  /\ items = << >>
  /\ idx = 0
  /\ shortestColumnIndex = -1
  /\ rejected = {}
  /\ layout = NoLayout
  /\ canvas = NoCanvas
  /\ drawn = << >>
  /\ reported = << >>
  /\ error = "none"
  /\ blob = "none"

\* lines 538-566: a selection or a drop of files
HandleFiles ==
  /\ uploader = "idle"
  /\ \E files \in UNION { [ 1..n -> FileKinds ] : n \in 1..MaxFiles } :
       LET selected == FilterImages(files)
       IN IF Len(selected) = 0
          THEN UNCHANGED << processing, imageFiles, uploader, fileIdx, fileStep, results >>
          ELSE /\ imageFiles' = selected
               /\ processing' = [ id \in { TempId(i) : i \in 0..(Len(selected) - 1) } |->
                                    [ imageId |-> id, progress |-> 0, stage |-> "loading" ] ]
               /\ uploader' = "processing"
               /\ fileIdx' = 0
               /\ fileStep' = 0
               /\ results' = << >>
  /\ UNCHANGED delivered
  /\ UNCHANGED << bannerVars, settingsVars >>

\* imageProcessor.ts lines 199-204 and 80-113: the next report for the current
\* file, passed on with the id generated for it; after the report of 100 the
\* file is pushed to the results
ProcessingReport ==
  /\ uploader = "processing"
  /\ fileIdx < Len(imageFiles)
  /\ fileStep < Len(ProgressSteps)
  /\ imageFiles[fileIdx + 1] = "broken" => fileStep + 1 < Len(ProgressSteps)
  /\ processing' = OnFileProgress(processing, GenerateId(fileIdx), ProgressSteps[fileStep + 1])
  /\ IF fileStep + 1 = Len(ProgressSteps)
     THEN /\ results' = Append(results, fileIdx)
          /\ fileIdx' = fileIdx + 1
          /\ fileStep' = 0
     ELSE /\ fileStep' = fileStep + 1
          /\ UNCHANGED << results, fileIdx >>
  /\ UNCHANGED << imageFiles, uploader, delivered >>
  /\ UNCHANGED << bannerVars, settingsVars >>

\* imageProcessor.ts lines 205-208: the file fails, the loop goes on
ProcessingFails ==
  /\ uploader = "processing"
  /\ fileIdx < Len(imageFiles)
  /\ imageFiles[fileIdx + 1] = "broken"
  /\ fileIdx' = fileIdx + 1
  /\ fileStep' = 0
  /\ UNCHANGED << processing, imageFiles, uploader, results, delivered >>
  /\ UNCHANGED << bannerVars, settingsVars >>

\* imageProcessor.ts line 211 and lines 583-584: processImages resolved
ProcessingResolved ==
  /\ uploader = "processing"
  /\ fileIdx = Len(imageFiles)
  /\ uploader' = "timer"
  /\ UNCHANGED << processing, imageFiles, fileIdx, fileStep, results, delivered >>
  /\ UNCHANGED << bannerVars, settingsVars >>

\* lines 584-587: the timer fires
ClearProcessing ==
  /\ uploader = "timer"
  /\ processing' = << >>
  /\ delivered' = results
  /\ uploader' = "idle"
  /\ UNCHANGED << imageFiles, fileIdx, fileStep, results >>
  /\ UNCHANGED << bannerVars, settingsVars >>

NextUploader ==
  \/ HandleFiles
  \/ ProcessingReport
  \/ ProcessingFails
  \/ ProcessingResolved
  \/ ClearProcessing

SpecUploader == InitUploader /\ [][NextUploader]_vars

\* ------------------------------------------------------- claim vocabulary
\* calculateMasonryLayout has returned to generateBanner
LayoutReturned ==
  \/ pc \in { "createCanvas", "draw", "encoded", "done" }
  \/ pc = "error" /\ error \in { "NoFit", "NoContext", "ToBlobFailed" }

\* a step of the layout loop: the image numbered idx + 1 is handled
LoopStep == pc = "layout" /\ idx' = idx + 1

\* the least filled height, the candidate y of the next image
LeastHeight == CHOOSE m \in { columnHeights[c] : c \in DOMAIN columnHeights } :
                 \A c \in DOMAIN columnHeights : m <= columnHeights[c]

\* Scale * the height the next image needs: columnWidth * height / width
NeededHeight ==
  ((bannerWidth - Gap * (columns + 1)) * WidthLcm * images[idx + 1][2])
     \div images[idx + 1][1]

\* candidate y + placed height > canvasHeight - gap, for the next image
Overflows == LeastHeight + NeededHeight > (bannerHeight - Gap) * columns * WidthLcm

\* C1: every image handled by the layout gets a column whose filled height
\* is the minimum over all columns, and among the columns sharing the minimum
\* the one with the lowest index.
C1_ShortestColumnFirst ==
  [][ LoopStep =>
        /\ shortestColumnIndex' \in DOMAIN columnHeights
        /\ \A d \in DOMAIN columnHeights :
             /\ columnHeights[shortestColumnIndex'] <= columnHeights[d]
             /\ d < shortestColumnIndex'
                  => columnHeights[d] > columnHeights[shortestColumnIndex'] ]_vars

\* the second image met columns 1 and 2 tied at the minimum and took column 1
C1_Witness ==
  /\ pc = "layout"
  /\ columns >= 3
  /\ idx = 2
  /\ Len(items) = 2
  /\ shortestColumnIndex = 1
  /\ columnHeights[0] > columnHeights[2]

\* C2: an image that overflows canvasHeight - gap at its candidate y is not
\* placed, changes no column height and is not retried; the loop goes on with
\* the next image against the same column heights.
C2_RejectedLeavesColumns ==
  /\ [][ (LoopStep /\ Overflows) =>
            /\ items' = items
            /\ columnHeights' = columnHeights
            /\ rejected' = rejected \cup { idx + 1 }
            /\ pc' = "layout" ]_vars
  /\ [](\A k \in 1..Len(items) :
          /\ items[k].image \notin rejected
          /\ items[k].image <= idx
          /\ k > 1 => items[k - 1].image < items[k].image)
  /\ [](LayoutReturned => idx = Len(images))

\* an image was rejected and a later image was placed
C2_Witness ==
  /\ LayoutReturned
  /\ \E r \in rejected : \E k \in 1..Len(items) : items[k].image > r

InvalidDimension ==
  \/ config.width <= 0
  \/ config.height <= 0
  \/ config.unit # "px" /\ config.dpi <= 0

\* a valid size spec that converts to a positive canvas size
PositiveCanvas == ~ InvalidDimension /\ bannerWidth > 0 /\ bannerHeight > 0

\* the vertical extent of an item
ItemTop(it) == IF it.height >= 0 THEN it.y ELSE it.y + it.height
ItemBottom(it) == IF it.height >= 0 THEN it.y + it.height ELSE it.y

\* C4: for every accepted canvas size (positive, at most 16000) every placed
\* item's rectangle lies within [0, canvasWidth] x [0, canvasHeight].
C4_ItemsInsideCanvas ==
  PositiveCanvas =>
    \A k \in 1..Len(items) :
      LET it == items[k]
          W == bannerWidth * columns * WidthLcm
          H == bannerHeight * columns * WidthLcm
      IN /\ 0 <= it.x /\ it.x <= W
         /\ 0 <= it.x + it.width /\ it.x + it.width <= W
         /\ 0 <= it.y /\ it.y <= H
         /\ 0 <= it.y + it.height /\ it.y + it.height <= H

\* C5: two distinct placed items with the same x offset have vertical ranges
\* that do not intersect.
C5_NoOverlapInColumn ==
  PositiveCanvas =>
    \A k, l \in 1..Len(items) :
      (k # l /\ items[k].x = items[l].x) =>
        \/ ItemBottom(items[k]) < ItemTop(items[l])
        \/ ItemBottom(items[l]) < ItemTop(items[k])

\* C6: a placement into column c makes the filled height of column c strictly
\* greater and changes no other column.
C6_ColumnGrows ==
  [][ (LoopStep /\ PositiveCanvas /\ Len(items') = Len(items) + 1) =>
        /\ columnHeights'[shortestColumnIndex'] > columnHeights[shortestColumnIndex']
        /\ \A d \in DOMAIN columnHeights :
             d # shortestColumnIndex' => columnHeights'[d] = columnHeights[d] ]_vars

\* C7: every placed item is as wide as a column and keeps the aspect ratio of
\* its image: width * originalHeight = height * originalWidth.
C7_AspectRatioKept ==
  \A k \in 1..Len(items) :
    LET it == items[k]
        original == images[it.image]
    IN /\ it.width * columns = (bannerWidth - Gap * (columns + 1)) * columns * WidthLcm
       /\ it.width * original[2] = it.height * original[1]

\* a portrait and a landscape image are both placed on a canvas of several columns
C7_Witness ==
  /\ LayoutReturned
  /\ columns >= 2
  /\ \E k, l \in 1..Len(items) :
       /\ images[items[k].image] = << 100, 200 >>
       /\ images[items[l].image] = << 200, 100 >>
       /\ items[k].height = 4 * items[l].height
       /\ items[k].height > 0

\* the unrounded pixel value of v tenths of the configured unit, <<num, den>>
ExactPixels(v) ==
  IF config.unit = "in" THEN << v * config.dpi, 10 >>
  ELSE IF config.unit = "cm" THEN << v * config.dpi * 10, 254 >>
  ELSE << v, 10 >>

\* n is the integer nearest to q[1] / q[2], halves going up
IsRoundOf(n, q) ==
  /\ 2 * n * q[2] - q[2] <= 2 * q[1]
  /\ 2 * q[1] < 2 * n * q[2] + q[2]

Converted == pc \notin { "start", "convert" } /\ error # "NoImages"

\* C8: the pixel size is round(v * dpi) for inches, round(v / 2.54 * dpi) for
\* centimetres and round(v) for pixels whatever the dpi, rounded once at the
\* end, in generateBanner and in calculatePixelDimensions alike.
C8_PixelSize ==
  /\ Converted =>
       /\ IsRoundOf(bannerWidth, ExactPixels(config.width))
       /\ IsRoundOf(bannerHeight, ExactPixels(config.height))
  /\ IsRoundOf(calculatePixelDimensions(config).width, ExactPixels(config.width))
  /\ IsRoundOf(calculatePixelDimensions(config).height, ExactPixels(config.height))

\* 0.5 in x 15 in at 300 dpi is 150 x 4500; 10 cm x 15 cm at 300 dpi is 1181 x 1772
C8_Witness ==
  /\ pc = "checkSize"
  /\ config.dpi = 300
  /\ \/ config.unit = "in" /\ config.width = 5 /\ config.height = 150
        /\ bannerWidth = 150 /\ bannerHeight = 4500
     \/ config.unit = "cm" /\ config.width = 100 /\ config.height = 150
        /\ bannerWidth = 1181 /\ bannerHeight = 1772

\* C9: a request with a non-positive width or height, or a non-positive dpi
\* with a physical unit, fails with InvalidDimension during the conversion: no
\* layout is computed and no canvas is made for it.
C9_InvalidDimensionFails ==
  (InvalidDimension /\ Len(images) > 0) =>
    /\ pc \in { "start", "convert" } \/ (pc = "error" /\ error = "InvalidDimension")
    /\ columnHeights = << >>
    /\ ~ canvas.allocated

\* C10: a converted width or height above 16000 fails with the
\* dimensions-too-large error before the layout and before any canvas;
\* 16000 x 16000 is accepted.
C10_TooLargeFailsEarly ==
  /\ [][ pc = "checkSize" =>
           IF bannerWidth > 16000 \/ bannerHeight > 16000
           THEN pc' = "error" /\ error' = "TooLarge"
           ELSE pc' = "beginLayout" /\ error' = "none" ]_vars
  /\ [](error = "TooLarge" =>
          /\ pc = "error"
          /\ columns = 0
          /\ columnHeights = << >>
          /\ idx = 0
          /\ layout = NoLayout
          /\ ~ canvas.allocated
          /\ drawn = << >>
          /\ blob = "none")
  /\ []((columns > 0 \/ canvas.allocated) =>
          bannerWidth <= 16000 /\ bannerHeight <= 16000)

\* a canvas of exactly 16000 x 16000 went on to the layout
C10_Witness ==
  /\ bannerWidth = 16000
  /\ bannerHeight = 16000
  /\ pc = "layout"
  /\ columns = 5
  /\ error = "none"

\* C11: generateBanner fails with the nothing-fits error whenever
\* canvasHeight - gap <= 0 or every image was rejected, and makes no raster
\* then (one 100x200 image on a 500x50 canvas is such a case).
C11_EmptyLayoutFails ==
  (PositiveCanvas /\ LayoutReturned
     /\ (bannerHeight - Gap <= 0 \/ rejected = 1..Len(images))) =>
    /\ pc = "error"
    /\ error = "NoFit"
    /\ layout.items = << >>
    /\ ~ canvas.allocated
    /\ blob = "none"

\* C12: the column count passed to the layout is clamp(floor(width / 400), 1, 5):
\* between 1 and 5, 1 below 800 and 5 from 2000 on.
C12_ColumnCount ==
  columns > 0 =>
    /\ 1 <= columns /\ columns <= 5
    /\ bannerWidth < 800 => columns = 1
    /\ bannerWidth >= 2000 => columns = 5
    /\ (800 <= bannerWidth /\ bannerWidth < 2000) =>
         (400 * columns <= bannerWidth /\ bannerWidth < 400 * (columns + 1))

\* 1999 px gives 4 columns, one pixel below the fifth
C12_Witness ==
  /\ pc = "layout"
  /\ bannerWidth = 1999
  /\ columns = 4

\* C13: a load failure in the draw loop does not abort the request: the loop
\* goes on to every other placed image in placement order, the encoding step
\* is reached, and only the failed image is missing from the composite.
C13_LoadFailureIsolated ==
  /\ [][ (pc = "draw" /\ Len(drawn) < Len(layout.items)) =>
           /\ pc' = "draw"
           /\ error' = "none"
           /\ Len(drawn') = Len(drawn) + 1
           /\ SubSeq(drawn', 1, Len(drawn)) = drawn
           /\ layout' = layout ]_vars
  /\ [](pc \in { "encoded", "done" } => Len(drawn) = Len(layout.items))
  /\ [](error # "ImageLoadFailed")

\* the banner was produced although an image failed to load, and an image
\* placed after the failed one was drawn
C13_Witness ==
  /\ pc = "done"
  /\ blob = "blob"
  /\ \E k, l \in 1..Len(drawn) : k < l /\ ~ drawn[k] /\ drawn[l]

\* C16: the values passed to onProgress never decrease and stay within
\* 5..100 whichever images fail to load; 100 is reported only after the blob
\* was produced and never in a run that ends with an error.
C16_ProgressMonotone ==
  /\ \A k \in 1..Len(reported) :
       /\ 5 <= reported[k] /\ reported[k] <= 100
       /\ k > 1 => reported[k - 1] <= reported[k]
  /\ (\E k \in 1..Len(reported) : reported[k] = 100) =>
       (pc = "done" /\ blob = "blob" /\ error = "none")
  /\ pc = "done" => reported[Len(reported)] = 100

\* a finished run in which the last placed image was drawn after a failed one
C16_Witness ==
  /\ pc = "done"
  /\ Len(drawn) >= 2
  /\ ~ drawn[1]
  /\ drawn[Len(drawn)]
  /\ reported[Len(reported)] = 100
  /\ reported[Len(reported) - 2] = 90

\* five square images on a 1000 x 1000 canvas with 3 columns
FiveSquares ==
  /\ images = [ k \in 1..5 |-> << 100, 100 >> ]
  /\ bannerWidth = 1000
  /\ bannerHeight = 1000
  /\ columns = 3

\* C14: five 100x100 images on a 1000x1000 canvas with 3 columns and gap 10 are
\* all placed, 320 wide, at (10,10), (340,10), (670,10), (10,340), (340,340);
\* in general x = gap + columnIndex * (columnWidth + gap) and y = the filled
\* height of the chosen column before the placement.
C14_Placement ==
  /\ [][ (LoopStep /\ Len(items') = Len(items) + 1) =>
           LET it == items'[Len(items')]
               S == columns * WidthLcm
               cw == (bannerWidth - Gap * (columns + 1)) * WidthLcm
           IN /\ it.x = Gap * S + shortestColumnIndex' * (cw + Gap * S)
              /\ it.y = columnHeights[shortestColumnIndex']
              /\ it.image = idx + 1 ]_vars
  /\ []((FiveSquares /\ pc = "returned") =>
          LET S == 3 * WidthLcm
              xs == << 10, 340, 670, 10, 340 >>
              ys == << 10, 10, 10, 340, 340 >>
          IN /\ Len(layout.items) = 5
             /\ rejected = {}
             /\ \A k \in 1..5 :
                  layout.items[k] = [ image |-> k, x |-> xs[k] * S, y |-> ys[k] * S,
                                      width |-> 320 * S, height |-> 320 * S ])

\* the scenario's layout has returned
C14_Witness ==
  /\ FiveSquares
  /\ pc = "returned"
  /\ Len(layout.items) = 5

\* C15: producing the preview of a render request is a resample of the raster
\* already composited: it runs neither the layout nor the compositing again.
C15_PreviewIsResampleOnly ==
  handler = "generate:preview" =>
    /\ columns = 0
    /\ columnHeights = << >>
    /\ ~ canvas.allocated
    /\ drawn = << >>

\* a render request is started by one of the two buttons
RequestStarted ==
  /\ handler' \in { "generate:banner", "download" }
  /\ pc' = "start"
  /\ handler # handler' \/ pc # "start"

\* C17: at most one banner generation is in flight: neither handler can be
\* started through its button while isGenerating is true.
C17_OneGenerationInFlight ==
  /\ [][ RequestStarted =>
           /\ ~ isGenerating
           /\ handler = "none"
           /\ pc = "idle"
           /\ isGenerating' ]_vars
  /\ [](isGenerating <=> handler # "none")
  /\ [](isGenerating => (GenerateDisabled /\ DownloadDisabled))
  /\ [](handler = "none" <=> pc = "idle")

\* a download is in flight while a preview is shown and images are present
C17_Witness ==
  /\ isGenerating
  /\ handler = "download"
  /\ pc = "draw"
  /\ previewUrl # << >>
  /\ Len(images) > 0

\* C18: a preview that is shown was generated from the config held in state,
\* so the downloaded banner uses the configuration of the preview on screen.
C18_PreviewMatchesConfig ==
  /\ previewUrl # << >> => previewUrl[1] = psConfig
  /\ (previewUrl # << >> /\ downloaded # << >>) => downloaded[1] = previewUrl[1]

\* C19: every progress report issued for a file updates the processing-map
\* entry created for that file, so the entry of a processed file has progress
\* 100 and stage 'complete'.
C19_ProgressReachesEntry ==
  uploader \in { "processing", "timer" } =>
    \A k \in 1..Len(results) :
      /\ TempId(results[k]) \in DOMAIN processing
      /\ processing[TempId(results[k])].progress = 100
      /\ processing[TempId(results[k])].stage = "complete"

TypeOK ==
  /\ pc \in { "start", "convert", "checkSize", "beginLayout", "layout",
              "createCanvas", "draw", "encoded", "done", "error",
              "idle", "callLayout", "returned" }
  /\ idx \in 0..Len(images)
  /\ rejected \subseteq 1..idx
  /\ Len(items) + Cardinality(rejected) = idx
====
